---- MODULE Spec2Model ----
(***************************************************************************)
(* Model of package util (btnmasher/util):                                 *)
(*   - ConcurrentMapString (strings.go): a map[string]string guarded by an *)
(*     embedded sync.RWMutex, called by several goroutines;                *)
(*   - BufferPool (buffer pool file): a buffered channel of *bytes.Buffer; *)
(*   - ChunkJoinStrings (strings.go): joins strings into bounded chunks.   *)
(* Strings are modelled by small integers: keys are 1..NumKeys, values are *)
(* 1..NumVals and EmptyString is the string "".                            *)
(***************************************************************************)
EXTENDS Integers, Sequences, FiniteSets, TLC

\* ---------------------------------------------------------------- bounds
NumG == 3
NumKeys == 2
NumVals == 2
\* BufferPool: goroutines, the largest capacity, the buffers one caller holds at a
\* time, the largest num given to Warmup, the bytes a caller writes to a buffer
NumP == 2
MaxCap == 2
MaxOwned == 1
MaxNum == 3
MaxWrite == 1
\* ChunkJoinStrings: the longest params, the longest string of params, the
\* largest maxlength, the longest sep
MaxParams == 3
MaxParam == 3
MaxLength == 5
MaxSep == 2

G == 1..NumG
Keys == 1..NumKeys
Values == 1..NumVals
\* the keys of the goroutines that each add their own key
AddKeys == 1..NumG
KeySpace == Keys \cup AddKeys
P == 1..NumP
\* The *bytes.Buffer addresses: enough for a full pool and every caller's buffers.
\* The address of a buffer nothing refers to any more is free to be allocated again.
Bufs == 1..(MaxCap + NumP * MaxOwned)

\* the string "" returned by Get beside an error
EmptyString == 0

VARIABLES
    \* ConcurrentMapString
    data,           \* m.data: the map[string]string
    w,              \* RWMutex.w: the writers' mutex is locked
    readerCount,    \* RWMutex.readerCount: readers that called RLock and not yet RUnlock
    readerWait,     \* RWMutex.readerWait: active readers the pending writer waits for
    \* one goroutine's call
    pc,             \* where each goroutine is in its call
    op,             \* the call it makes: [name, key, val]
    exists,         \* the local `exists` of Add/Del/Get/Set/Exists
    v,              \* the local `v` of Get
    ret,            \* the values the call returns
    visits,         \* the calls ForEach has made of do(key, val), in order
    \* history variables (they record the run, they do not steer it)
    snap,           \* m.data as it was when the goroutine acquired the lock
    seqData,        \* the plain sequential map, run in lock acquisition order
    seqRet,         \* what the sequential map returned for the goroutine's call
    lastVal,        \* per key: value of the latest successful Add/Set, NoValue after Del
    \* BufferPool
    max,            \* the capacity NewBufferPool gave the channel
    Buffers,        \* pool.Buffers: the buffered channel, oldest element first
    content,        \* per *bytes.Buffer: the number of bytes it holds
    ppc,            \* where each goroutine is in its pool call
    pop,            \* the pool call it makes: [name, num, length, buf]
    i,              \* the loop variable of Warmup
    owned,          \* the buffers each caller holds (from New, not yet given to Recycle)
    \* history variables of the pool
    had,            \* len(pool.Buffers) when the goroutine called Warmup
    older,          \* pairs <<a, b>>: a and b are in the pool and a was stored before b
    \* ChunkJoinStrings (a string is the sequence of its bytes)
    params,         \* the strings to join
    maxlength,      \* the limit given for the length of a joined string
    sep,            \* the separator
    buffer,         \* the bytes.Buffer the current string is built in
    currlen,        \* the length the function counts for the current string
    joined,         \* the strings built so far
    idx,            \* the loop variable i of range params
    cpc             \* where the function is: "for", "return" or "done"

mapVars == <<data, w, readerCount, readerWait, pc, op, exists, v, ret, visits>>
histVars == <<snap, seqData, seqRet, lastVal>>
poolVars == <<max, Buffers, content, ppc, pop, i, owned, had, older>>
chunkVars == <<params, maxlength, sep, buffer, currlen, joined, idx, cpc>>
vars == <<mapVars, histVars, poolVars, chunkVars>>

\* ------------------------------------------------------------ values
WriteOps == {"Add", "Set", "Del"}
ReadOps == {"Get", "Exists", "Length", "ForEach"}

NoOp == [name |-> "none", key |-> EmptyString, val |-> EmptyString]

\* (string, error), bool and int results share one record; err is "error # nil"
Result(e, s, b, n) == [err |-> e, str |-> s, bool |-> b, int |-> n]
NoRet == Result(FALSE, EmptyString, FALSE, 0)

NoValue == EmptyString
NoPoolOp == [name |-> "none", num |-> 0, length |-> 0, buf |-> 0]
EmptyMap == <<>>

\* _, exists := m.data[key]
Has(m, k) == k \in DOMAIN m
\* len(m.data)
LenData(m) == Cardinality(DOMAIN m)
\* Faulty variant: the store replaces the whole map by the one entry
StoreAlone(m, k, x) == [j \in {k} |-> x]
\* m.data[key] = value
Store(m, k, x) == [j \in (DOMAIN m) \cup {k} |-> IF j = k THEN x ELSE m[j]]
\* Faulty variant: the delete empties the map
DeleteAll(m, k) == [j \in {} |-> EmptyString]
\* delete(m.data, key)
Delete(m, k) == [j \in (DOMAIN m) \ {k} |-> m[j]]

\* ------------------------------------------- the plain sequential map
\* One call run atomically on a map m without any lock: the map afterwards.
SeqData(o, m) ==
    CASE o.name = "Add" -> IF Has(m, o.key) THEN m ELSE Store(m, o.key, o.val)
      [] o.name = "Set" -> IF Has(m, o.key) THEN Store(m, o.key, o.val) ELSE m
      [] o.name = "Del" -> IF Has(m, o.key) THEN Delete(m, o.key) ELSE m
      [] OTHER -> m

\* One call run atomically on a map m without any lock: what it returns.
SeqRet(o, m) ==
    CASE o.name = "Add" -> Result(Has(m, o.key), EmptyString, FALSE, 0)
      [] o.name \in {"Set", "Del"} -> Result(~Has(m, o.key), EmptyString, FALSE, 0)
      [] o.name = "Get" ->
            IF Has(m, o.key) THEN Result(FALSE, m[o.key], FALSE, 0)
            ELSE Result(TRUE, EmptyString, FALSE, 0)
      [] o.name = "Exists" -> Result(FALSE, EmptyString, Has(m, o.key), 0)
      [] o.name = "Length" -> Result(FALSE, EmptyString, FALSE, LenData(m))
      [] OTHER -> NoRet

\* ------------------------------------------------------------ initial state
\* NewConcurrentMapString: an empty map, the zero RWMutex, no call in progress.
MapInit ==
    /\ data = EmptyMap
    /\ w = FALSE
    /\ readerCount = 0
    /\ readerWait = 0
    /\ pc = [g \in G |-> "idle"]
    /\ op = [g \in G |-> NoOp]
    /\ exists = [g \in G |-> FALSE]
    /\ v = [g \in G |-> EmptyString]
    /\ ret = [g \in G |-> NoRet]
    /\ visits = [g \in G |-> <<>>]

HistInit ==
    /\ snap = [g \in G |-> EmptyMap]
    /\ seqData = EmptyMap
    /\ seqRet = [g \in G |-> NoRet]
    /\ lastVal = [k \in KeySpace |-> NoValue]

\* No pool call is made while the map is exercised.
PoolIdle ==
    /\ max = 0
    /\ Buffers = <<>>
    /\ content = [b \in Bufs |-> 0]
    /\ ppc = [g \in P |-> "idle"]
    /\ pop = [g \in P |-> NoPoolOp]
    /\ i = [g \in P |-> 0]
    /\ owned = [g \in P |-> {}]
    /\ had = [g \in P |-> 0]
    /\ older = {}

\* ChunkJoinStrings is not called while the map or the pool is exercised.
ChunkIdle ==
    /\ params = <<>>
    /\ maxlength = 0
    /\ sep = <<>>
    /\ buffer = <<>>
    /\ currlen = 0
    /\ joined = <<>>
    /\ idx = 0
    /\ cpc = "done"

Init == MapInit /\ HistInit /\ PoolIdle /\ ChunkIdle

\* ------------------------------------------------------------ calls
\* The first statement of a method: m.Lock() for the writers, m.RLock() for the readers.
Entry(name) == IF name \in WriteOps THEN "Lock" ELSE "RLock"

\* The first statement after the lock is held.
Start(o) ==
    CASE o.name = "Length" -> "len"
      [] o.name = "ForEach" -> "range"
      [] OTHER -> "exists"

\* The calls a goroutine may make: every method, every key, every value.
Calls ==
    [name : {"Add", "Set"}, key : Keys, val : Values]
      \cup [name : {"Del", "Get", "Exists"}, key : Keys, val : {EmptyString}]
      \cup [name : {"Length", "ForEach"}, key : {EmptyString}, val : {EmptyString}]

\* History: the goroutines of S acquire the lock in this step, those of D return.
Record(S, D) ==
    /\ snap' = [h \in G |-> IF h \in S THEN data ELSE IF h \in D THEN EmptyMap ELSE snap[h]]
    /\ seqData' = IF \E h \in S : op[h].name \in WriteOps
                  THEN SeqData(op[CHOOSE h \in S : op[h].name \in WriteOps], seqData)
                  ELSE seqData
    /\ seqRet' = [h \in G |-> IF h \in S THEN SeqRet(op[h], seqData)
                              ELSE IF h \in D THEN NoRet ELSE seqRet[h]]

\* A goroutine calls a method of the map.
Call(g) ==
    /\ pc[g] = "idle"
    /\ \E o \in Calls :
        /\ op' = [op EXCEPT ![g] = o]
        /\ pc' = [pc EXCEPT ![g] = Entry(o.name)]
    /\ UNCHANGED <<data, w, readerCount, readerWait, exists, v, ret, visits>>
    /\ UNCHANGED histVars
    /\ UNCHANGED <<poolVars, chunkVars>>

\* ------------------------------------------------------------ sync.RWMutex
\* Faulty variant: the writer does not take the writers' mutex
LockNoMutex(g) ==
    /\ pc[g] = "Lock"
    /\ w' = TRUE
    /\ readerWait' = readerCount
    /\ pc' = [pc EXCEPT ![g] = IF readerCount = 0 THEN Start(op[g]) ELSE "LockWait"]
    /\ IF readerCount = 0 THEN Record({g}, {}) ELSE UNCHANGED <<snap, seqData, seqRet>>
    /\ UNCHANGED <<data, readerCount, op, exists, v, ret, visits, lastVal>>
    /\ UNCHANGED <<poolVars, chunkVars>>

\* Faulty variant: the writer does not wait for the active readers to depart
LockNoDrain(g) ==
    /\ pc[g] = "Lock"
    /\ ~w
    /\ w' = TRUE
    /\ readerWait' = readerCount
    /\ pc' = [pc EXCEPT ![g] = Start(op[g])]
    /\ Record({g}, {})
    /\ UNCHANGED <<data, readerCount, op, exists, v, ret, visits, lastVal>>
    /\ UNCHANGED <<poolVars, chunkVars>>

\* m.Lock(): take the writers' mutex w, announce the writer (from now on RLock
\* blocks) and wait for the readers that are active at that moment.
Lock(g) ==
    /\ pc[g] = "Lock"
    /\ ~w
    /\ w' = TRUE
    /\ readerWait' = readerCount
    /\ pc' = [pc EXCEPT ![g] = IF readerCount = 0 THEN Start(op[g]) ELSE "LockWait"]
    /\ IF readerCount = 0 THEN Record({g}, {}) ELSE UNCHANGED <<snap, seqData, seqRet>>
    /\ UNCHANGED <<data, readerCount, op, exists, v, ret, visits, lastVal>>
    /\ UNCHANGED <<poolVars, chunkVars>>

\* m.Lock(), woken: the last active reader has departed.
LockWake(g) ==
    /\ pc[g] = "LockWait"
    /\ readerWait = 0
    /\ pc' = [pc EXCEPT ![g] = Start(op[g])]
    /\ Record({g}, {})
    /\ UNCHANGED <<data, w, readerCount, readerWait, op, exists, v, ret, visits, lastVal>>
    /\ UNCHANGED <<poolVars, chunkVars>>

\* Faulty variant: the reader does not block while a writer is pending or active
RLockBarge(g) ==
    /\ pc[g] = "RLock"
    /\ readerCount' = readerCount + 1
    /\ pc' = [pc EXCEPT ![g] = Start(op[g])]
    /\ Record({g}, {})
    /\ UNCHANGED <<data, w, readerWait, op, exists, v, ret, visits, lastVal>>
    /\ UNCHANGED <<poolVars, chunkVars>>

\* m.RLock(): count the reader in; it blocks while a writer is pending or active.
RLock(g) ==
    /\ pc[g] = "RLock"
    /\ readerCount' = readerCount + 1
    /\ pc' = [pc EXCEPT ![g] = IF w THEN "RLockWait" ELSE Start(op[g])]
    /\ IF w THEN UNCHANGED <<snap, seqData, seqRet>> ELSE Record({g}, {})
    /\ UNCHANGED <<data, w, readerWait, op, exists, v, ret, visits, lastVal>>
    /\ UNCHANGED <<poolVars, chunkVars>>

\* The caller's frame is gone once the method has returned.
Returned(g) ==
    /\ op' = [op EXCEPT ![g] = NoOp]
    /\ exists' = [exists EXCEPT ![g] = FALSE]
    /\ v' = [v EXCEPT ![g] = EmptyString]
    /\ ret' = [ret EXCEPT ![g] = NoRet]
    /\ visits' = [visits EXCEPT ![g] = <<>>]

\* Faulty variant: Unlock releases w and leaves the blocked readers asleep
UnlockNoWake(g, to) ==
    /\ pc[g] = "Unlock"
    /\ pc' = [pc EXCEPT ![g] = to]
    /\ Record({}, IF to = "idle" THEN {g} ELSE {})
    /\ w' = FALSE
    /\ IF to = "idle" THEN Returned(g) ELSE UNCHANGED <<op, exists, v, ret, visits>>
    /\ UNCHANGED <<data, readerCount, readerWait, lastVal>>
    /\ UNCHANGED <<poolVars, chunkVars>>

\* defer m.Unlock(): let every blocked reader in, release w, return. The caller
\* goes on to `to`: "idle" (it may call again) or "done" (it keeps what it got).
UnlockTo(g, to) ==
    /\ pc[g] = "Unlock"
    /\ LET blocked == {h \in G : pc[h] = "RLockWait"} IN
        /\ pc' = [h \in G |-> IF h = g THEN to
                              ELSE IF h \in blocked THEN Start(op[h]) ELSE pc[h]]
        /\ Record(blocked, IF to = "idle" THEN {g} ELSE {})
    /\ w' = FALSE
    /\ IF to = "idle" THEN Returned(g) ELSE UNCHANGED <<op, exists, v, ret, visits>>
    /\ UNCHANGED <<data, readerCount, readerWait, lastVal>>
    /\ UNCHANGED <<poolVars, chunkVars>>

Unlock(g) == UnlockTo(g, "idle")

\* Faulty variant: the departing reader does not tell the pending writer
RUnlockNoSignal(g) ==
    /\ pc[g] = "RUnlock"
    /\ readerCount' = readerCount - 1
    /\ pc' = [pc EXCEPT ![g] = "idle"]
    /\ Record({}, {g})
    /\ Returned(g)
    /\ UNCHANGED <<data, w, readerWait, lastVal>>
    /\ UNCHANGED <<poolVars, chunkVars>>

\* defer m.RUnlock(): count the reader out; the last reader a pending writer
\* waits for wakes it. Return.
RUnlock(g) ==
    /\ pc[g] = "RUnlock"
    /\ readerCount' = readerCount - 1
    /\ readerWait' = IF w THEN readerWait - 1 ELSE readerWait
    /\ pc' = [pc EXCEPT ![g] = "idle"]
    /\ Record({}, {g})
    /\ Returned(g)
    /\ UNCHANGED <<data, w, lastVal>>
    /\ UNCHANGED <<poolVars, chunkVars>>

\* ------------------------------------------------------------ method bodies
\* _, exists := m.data[key]   (v, exists := m.data[key] in Get)
ReadExists(g) ==
    /\ pc[g] = "exists"
    /\ exists' = [exists EXCEPT ![g] = Has(data, op[g].key)]
    /\ v' = [v EXCEPT ![g] = IF op[g].name = "Get" /\ Has(data, op[g].key)
                             THEN data[op[g].key] ELSE EmptyString]
    /\ pc' = [pc EXCEPT ![g] = op[g].name]
    /\ UNCHANGED <<data, w, readerCount, readerWait, op, ret, visits>>
    /\ UNCHANGED histVars
    /\ UNCHANGED <<poolVars, chunkVars>>

\* Faulty variant: Add stores the value before it looks at exists
AddOverwrite(g) ==
    /\ pc[g] = "Add"
    /\ data' = Store(data, op[g].key, op[g].val)
    /\ lastVal' = IF exists[g] THEN lastVal ELSE [lastVal EXCEPT ![op[g].key] = op[g].val]
    /\ ret' = [ret EXCEPT ![g] = Result(exists[g], EmptyString, FALSE, 0)]
    /\ pc' = [pc EXCEPT ![g] = "Unlock"]
    /\ UNCHANGED <<w, readerCount, readerWait, op, exists, v, visits, snap, seqData, seqRet>>
    /\ UNCHANGED <<poolVars, chunkVars>>

\* Add: if exists { return error }; m.data[key] = value; return nil
Add(g) ==
    /\ pc[g] = "Add"
    /\ IF exists[g]
       THEN /\ ret' = [ret EXCEPT ![g] = Result(TRUE, EmptyString, FALSE, 0)]
            /\ UNCHANGED <<data, lastVal>>
       ELSE /\ data' = Store(data, op[g].key, op[g].val)
            /\ lastVal' = [lastVal EXCEPT ![op[g].key] = op[g].val]
            /\ ret' = [ret EXCEPT ![g] = Result(FALSE, EmptyString, FALSE, 0)]
    /\ pc' = [pc EXCEPT ![g] = "Unlock"]
    /\ UNCHANGED <<w, readerCount, readerWait, op, exists, v, visits, snap, seqData, seqRet>>
    /\ UNCHANGED <<poolVars, chunkVars>>

\* Faulty variant: Del of an absent key returns nil
DelIgnoreMissing(g) ==
    /\ pc[g] = "Del"
    /\ data' = IF exists[g] THEN Delete(data, op[g].key) ELSE data
    /\ lastVal' = [lastVal EXCEPT ![op[g].key] = NoValue]
    /\ ret' = [ret EXCEPT ![g] = Result(FALSE, EmptyString, FALSE, 0)]
    /\ pc' = [pc EXCEPT ![g] = "Unlock"]
    /\ UNCHANGED <<w, readerCount, readerWait, op, exists, v, visits, snap, seqData, seqRet>>
    /\ UNCHANGED <<poolVars, chunkVars>>

\* Del: if !exists { return error }; delete(m.data, key); return nil
Del(g) ==
    /\ pc[g] = "Del"
    /\ IF ~exists[g]
       THEN /\ ret' = [ret EXCEPT ![g] = Result(TRUE, EmptyString, FALSE, 0)]
            /\ UNCHANGED <<data, lastVal>>
       ELSE /\ data' = Delete(data, op[g].key)
            /\ lastVal' = [lastVal EXCEPT ![op[g].key] = NoValue]
            /\ ret' = [ret EXCEPT ![g] = Result(FALSE, EmptyString, FALSE, 0)]
    /\ pc' = [pc EXCEPT ![g] = "Unlock"]
    /\ UNCHANGED <<w, readerCount, readerWait, op, exists, v, visits, snap, seqData, seqRet>>
    /\ UNCHANGED <<poolVars, chunkVars>>

\* Set: if !exists { return error }; m.data[key] = value; return nil
Set(g) ==
    /\ pc[g] = "Set"
    /\ IF ~exists[g]
       THEN /\ ret' = [ret EXCEPT ![g] = Result(TRUE, EmptyString, FALSE, 0)]
            /\ UNCHANGED <<data, lastVal>>
       ELSE /\ data' = Store(data, op[g].key, op[g].val)
            /\ lastVal' = [lastVal EXCEPT ![op[g].key] = op[g].val]
            /\ ret' = [ret EXCEPT ![g] = Result(FALSE, EmptyString, FALSE, 0)]
    /\ pc' = [pc EXCEPT ![g] = "Unlock"]
    /\ UNCHANGED <<w, readerCount, readerWait, op, exists, v, visits, snap, seqData, seqRet>>
    /\ UNCHANGED <<poolVars, chunkVars>>

\* Get: if !exists { return "", error }; return v, nil
Get(g) ==
    /\ pc[g] = "Get"
    /\ ret' = [ret EXCEPT ![g] = IF ~exists[g] THEN Result(TRUE, EmptyString, FALSE, 0)
                                 ELSE Result(FALSE, v[g], FALSE, 0)]
    /\ pc' = [pc EXCEPT ![g] = "RUnlock"]
    /\ UNCHANGED <<data, w, readerCount, readerWait, op, exists, v, visits>>
    /\ UNCHANGED histVars
    /\ UNCHANGED <<poolVars, chunkVars>>

\* Exists: return exists
Exists(g) ==
    /\ pc[g] = "Exists"
    /\ ret' = [ret EXCEPT ![g] = Result(FALSE, EmptyString, exists[g], 0)]
    /\ pc' = [pc EXCEPT ![g] = "RUnlock"]
    /\ UNCHANGED <<data, w, readerCount, readerWait, op, exists, v, visits>>
    /\ UNCHANGED histVars
    /\ UNCHANGED <<poolVars, chunkVars>>

\* Length: return len(m.data)
Length(g) ==
    /\ pc[g] = "len"
    /\ ret' = [ret EXCEPT ![g] = Result(FALSE, EmptyString, FALSE, LenData(data))]
    /\ pc' = [pc EXCEPT ![g] = "RUnlock"]
    /\ UNCHANGED <<data, w, readerCount, readerWait, op, exists, v, visits>>
    /\ UNCHANGED histVars
    /\ UNCHANGED <<poolVars, chunkVars>>

\* The keys the range loop of ForEach has produced so far.
Produced(g) == {visits[g][n][1] : n \in 1..Len(visits[g])}

\* ForEach: for key, val := range m.data { do(key, val) }, one iteration. The
\* order is the runtime's choice; an entry is produced at most once.
ForEachDo(g) ==
    /\ pc[g] = "range"
    /\ \E k \in (DOMAIN data) \ Produced(g) :
        visits' = [visits EXCEPT ![g] = Append(@, <<k, data[k]>>)]
    /\ UNCHANGED <<data, w, readerCount, readerWait, pc, op, exists, v, ret>>
    /\ UNCHANGED histVars
    /\ UNCHANGED <<poolVars, chunkVars>>

\* ForEach: the range loop has no entry left.
ForEachEnd(g) ==
    /\ pc[g] = "range"
    /\ (DOMAIN data) \ Produced(g) = {}
    /\ pc' = [pc EXCEPT ![g] = "RUnlock"]
    /\ UNCHANGED <<data, w, readerCount, readerWait, op, exists, v, ret, visits>>
    /\ UNCHANGED histVars
    /\ UNCHANGED <<poolVars, chunkVars>>

\* ------------------------------------------------------------ specification
\* A step of a call in progress.
Step(g) ==
    \/ Lock(g) \/ LockWake(g) \/ RLock(g)
    \/ ReadExists(g)
    \/ Add(g) \/ Del(g) \/ Set(g) \/ Get(g) \/ Exists(g) \/ Length(g)
    \/ ForEachDo(g) \/ ForEachEnd(g)
    \/ Unlock(g) \/ RUnlock(g)

Next == \E g \in G : Call(g) \/ Step(g)

Spec == Init /\ [][Next]_vars

\* --------------------------------------------- N goroutines, one Add each
\* A goroutine that has not called yet calls Add with a key no other goroutine uses.
AddCall(g) ==
    /\ pc[g] = "idle"
    /\ \E k \in AddKeys \ {op[h].key : h \in G}, x \in Values :
        op' = [op EXCEPT ![g] = [name |-> "Add", key |-> k, val |-> x]]
    /\ pc' = [pc EXCEPT ![g] = "Lock"]
    /\ UNCHANGED <<data, w, readerCount, readerWait, exists, v, ret, visits>>
    /\ UNCHANGED histVars
    /\ UNCHANGED <<poolVars, chunkVars>>

\* Add returns and the goroutine makes no further call.
UnlockDone(g) == UnlockTo(g, "done")

AddNext == \E g \in G : AddCall(g) \/ Lock(g) \/ ReadExists(g) \/ Add(g) \/ UnlockDone(g)

AddSpec == Init /\ [][AddNext]_vars

\* ------------------------------------------------- fair scheduling
\* The progress of the lock does not depend on which key or value a call names:
\* the goroutines of the fair specification keep calling every method, on one key.
FairCalls == {o \in Calls : o.key \in {EmptyString, 1} /\ o.val \in {EmptyString, 1}}

FairCall(g) ==
    /\ pc[g] = "idle"
    /\ \E o \in FairCalls :
        /\ op' = [op EXCEPT ![g] = o]
        /\ pc' = [pc EXCEPT ![g] = Entry(o.name)]
    /\ UNCHANGED <<data, w, readerCount, readerWait, exists, v, ret, visits>>
    /\ UNCHANGED histVars
    /\ UNCHANGED <<poolVars, chunkVars>>

FairNext == \E g \in G : FairCall(g) \/ Step(g)

\* The scheduler runs every goroutine that can run (weak fairness of its steps). The
\* writers' mutex w is a sync.Mutex, whose starvation mode hands the mutex to a
\* goroutine that keeps waiting for it (strong fairness of Lock). A goroutine is
\* free never to call again: Call has no fairness.
Fairness == \A g \in G : WF_vars(Step(g)) /\ SF_vars(Lock(g))

FairSpec == Init /\ [][FairNext]_vars /\ Fairness

\* ------------------------------------------------------------ BufferPool
\* The buffers in the slots of the channel.
Stored == {Buffers[n] : n \in 1..Len(Buffers)}

\* The buffers something refers to: the channel, a caller, a Recycle in progress.
Live ==
    Stored
      \cup UNION {owned[g] : g \in P}
      \cup {pop[g].buf : g \in {h \in P : pop[h].name = "Recycle"}}

\* &bytes.Buffer{}: the address of a buffer that is not in use.
Fresh == CHOOSE b \in Bufs : b \notin Live /\ \A c \in Bufs \ Live : b <= c

\* History: buffer b enters the channel behind the buffers that are in it.
Behind(b) == older \cup {<<a, b>> : a \in Stored}
\* History: buffer b leaves the channel.
Without(b) == {q \in older : q[1] # b /\ q[2] # b}

\* NewBufferPool(max): a channel of capacity max, empty. No map call is made while
\* the pool is exercised.
PoolInit ==
    /\ MapInit
    /\ HistInit
    /\ ChunkIdle
    /\ max \in 0..MaxCap
    /\ Buffers = <<>>
    /\ content = [b \in Bufs |-> 0]
    /\ ppc = [g \in P |-> "idle"]
    /\ pop = [g \in P |-> NoPoolOp]
    /\ i = [g \in P |-> 0]
    /\ owned = [g \in P |-> {}]
    /\ had = [g \in P |-> 0]
    /\ older = {}

\* The calls a goroutine may make of the pool. A caller recycles a buffer it holds,
\* and gives it up as it does.
CallWarmup(g) ==
    /\ ppc[g] = "idle"
    /\ \E num \in 0..MaxNum, length \in 0..MaxWrite :
        pop' = [pop EXCEPT ![g] = [name |-> "Warmup", num |-> num, length |-> length, buf |-> 0]]
    /\ i' = [i EXCEPT ![g] = 0]
    /\ ppc' = [ppc EXCEPT ![g] = "for"]
    /\ UNCHANGED <<max, Buffers, content, owned>>
    /\ UNCHANGED <<mapVars, histVars, chunkVars>>
    /\ had' = [had EXCEPT ![g] = Len(Buffers)]
    /\ UNCHANGED older

CallNew(g) ==
    /\ ppc[g] = "idle"
    /\ Cardinality(owned[g]) < MaxOwned
    /\ pop' = [pop EXCEPT ![g] = [name |-> "New", num |-> 0, length |-> 0, buf |-> 0]]
    /\ ppc' = [ppc EXCEPT ![g] = "select"]
    /\ UNCHANGED <<max, Buffers, content, i, owned>>
    /\ UNCHANGED <<mapVars, histVars, chunkVars>>
    /\ UNCHANGED <<had, older>>

CallRecycle(g) ==
    /\ ppc[g] = "idle"
    /\ \E b \in owned[g] :
        /\ pop' = [pop EXCEPT ![g] = [name |-> "Recycle", num |-> 0, length |-> 0, buf |-> b]]
        /\ owned' = [owned EXCEPT ![g] = @ \ {b}]
    /\ ppc' = [ppc EXCEPT ![g] = "Reset"]
    /\ UNCHANGED <<max, Buffers, content, i>>
    /\ UNCHANGED <<mapVars, histVars, chunkVars>>
    /\ UNCHANGED <<had, older>>

\* The caller writes a byte to a buffer it holds.
Write(g) ==
    /\ ppc[g] = "idle"
    /\ \E b \in owned[g] :
        /\ content[b] < MaxWrite
        /\ content' = [content EXCEPT ![b] = @ + 1]
    /\ UNCHANGED <<max, Buffers, ppc, pop, i, owned>>
    /\ UNCHANGED <<mapVars, histVars, chunkVars>>
    /\ UNCHANGED <<had, older>>

\* Faulty variant: Warmup stops one below the capacity of the channel
WarmupOneBelow(g) ==
    /\ ppc[g] = "for"
    /\ IF i[g] < pop[g].num /\ Len(Buffers) < max - 1
       THEN /\ Buffers' = Append(Buffers, Fresh)
            /\ content' = [content EXCEPT ![Fresh] = 0]
            /\ i' = [i EXCEPT ![g] = @ + 1]
            /\ older' = Behind(Fresh)
            /\ UNCHANGED <<ppc, pop, had>>
       ELSE /\ ppc' = [ppc EXCEPT ![g] = "idle"]
            /\ pop' = [pop EXCEPT ![g] = NoPoolOp]
            /\ i' = [i EXCEPT ![g] = 0]
            /\ had' = [had EXCEPT ![g] = 0]
            /\ UNCHANGED <<Buffers, content, older>>
    /\ UNCHANGED <<max, owned>>
    /\ UNCHANGED <<mapVars, histVars, chunkVars>>

\* Warmup: for i := 0; i < num; i++ { select { case pool.Buffers <- &bytes.Buffer{}:
\* default: return } }, one iteration, or the end of the loop.
Warmup(g) ==
    /\ ppc[g] = "for"
    /\ IF i[g] < pop[g].num /\ Len(Buffers) < max
       THEN /\ Buffers' = Append(Buffers, Fresh)
            /\ content' = [content EXCEPT ![Fresh] = 0]
            /\ i' = [i EXCEPT ![g] = @ + 1]
            /\ older' = Behind(Fresh)
            /\ UNCHANGED <<ppc, pop, had>>
       ELSE /\ ppc' = [ppc EXCEPT ![g] = "idle"]
            /\ pop' = [pop EXCEPT ![g] = NoPoolOp]
            /\ i' = [i EXCEPT ![g] = 0]
            /\ had' = [had EXCEPT ![g] = 0]
            /\ UNCHANGED <<Buffers, content, older>>
    /\ UNCHANGED <<max, owned>>
    /\ UNCHANGED <<mapVars, histVars, chunkVars>>

\* Faulty variant: New takes the newest buffer of the pool
NewNewest(g) ==
    /\ ppc[g] = "select"
    /\ IF Len(Buffers) > 0
       THEN /\ owned' = [owned EXCEPT ![g] = @ \cup {Buffers[Len(Buffers)]}]
            /\ Buffers' = SubSeq(Buffers, 1, Len(Buffers) - 1)
            /\ older' = Without(Buffers[Len(Buffers)])
            /\ UNCHANGED content
       ELSE /\ owned' = [owned EXCEPT ![g] = @ \cup {Fresh}]
            /\ content' = [content EXCEPT ![Fresh] = 0]
            /\ UNCHANGED <<Buffers, older>>
    /\ ppc' = [ppc EXCEPT ![g] = "idle"]
    /\ pop' = [pop EXCEPT ![g] = NoPoolOp]
    /\ UNCHANGED <<max, i>>
    /\ UNCHANGED <<mapVars, histVars, chunkVars>>
    /\ UNCHANGED had

\* Faulty variant: New allocates whatever the pool holds
NewAllocates(g) ==
    /\ ppc[g] = "select"
    /\ owned' = [owned EXCEPT ![g] = @ \cup {Fresh}]
    /\ content' = [content EXCEPT ![Fresh] = 0]
    /\ ppc' = [ppc EXCEPT ![g] = "idle"]
    /\ pop' = [pop EXCEPT ![g] = NoPoolOp]
    /\ UNCHANGED <<max, Buffers, i>>
    /\ UNCHANGED <<mapVars, histVars, chunkVars>>
    /\ UNCHANGED <<had, older>>

\* Faulty variant: New reads the oldest buffer and leaves it in the channel
NewPeek(g) ==
    /\ ppc[g] = "select"
    /\ IF Len(Buffers) > 0
       THEN /\ owned' = [owned EXCEPT ![g] = @ \cup {Head(Buffers)}]
            /\ UNCHANGED <<Buffers, content>>
       ELSE /\ owned' = [owned EXCEPT ![g] = @ \cup {Fresh}]
            /\ content' = [content EXCEPT ![Fresh] = 0]
            /\ UNCHANGED Buffers
    /\ ppc' = [ppc EXCEPT ![g] = "idle"]
    /\ pop' = [pop EXCEPT ![g] = NoPoolOp]
    /\ UNCHANGED <<max, i>>
    /\ UNCHANGED <<mapVars, histVars, chunkVars>>
    /\ UNCHANGED <<had, older>>

\* New: select { case buf = <-pool.Buffers: default: buf = &bytes.Buffer{} }; return
New(g) ==
    /\ ppc[g] = "select"
    /\ IF Len(Buffers) > 0
       THEN /\ owned' = [owned EXCEPT ![g] = @ \cup {Head(Buffers)}]
            /\ Buffers' = Tail(Buffers)
            /\ older' = Without(Head(Buffers))
            /\ UNCHANGED content
       ELSE /\ owned' = [owned EXCEPT ![g] = @ \cup {Fresh}]
            /\ content' = [content EXCEPT ![Fresh] = 0]
            /\ UNCHANGED <<Buffers, older>>
    /\ ppc' = [ppc EXCEPT ![g] = "idle"]
    /\ pop' = [pop EXCEPT ![g] = NoPoolOp]
    /\ UNCHANGED <<max, i>>
    /\ UNCHANGED <<mapVars, histVars, chunkVars>>
    /\ UNCHANGED had

\* Faulty variant: Recycle does not reset the buffer
ResetSkipped(g) ==
    /\ ppc[g] = "Reset"
    /\ ppc' = [ppc EXCEPT ![g] = "send"]
    /\ UNCHANGED <<max, Buffers, content, pop, i, owned>>
    /\ UNCHANGED <<mapVars, histVars, chunkVars>>
    /\ UNCHANGED <<had, older>>

\* Recycle: buf.Reset()
Reset(g) ==
    /\ ppc[g] = "Reset"
    /\ content' = [content EXCEPT ![pop[g].buf] = 0]
    /\ ppc' = [ppc EXCEPT ![g] = "send"]
    /\ UNCHANGED <<max, Buffers, pop, i, owned>>
    /\ UNCHANGED <<mapVars, histVars, chunkVars>>
    /\ UNCHANGED <<had, older>>

\* Faulty variant: Recycle sends whether or not the channel has room
RecycleAlways(g) ==
    /\ ppc[g] = "send"
    /\ Buffers' = Append(Buffers, pop[g].buf)
    /\ older' = Behind(pop[g].buf)
    /\ ppc' = [ppc EXCEPT ![g] = "idle"]
    /\ pop' = [pop EXCEPT ![g] = NoPoolOp]
    /\ UNCHANGED <<max, content, i, owned>>
    /\ UNCHANGED <<mapVars, histVars, chunkVars>>
    /\ UNCHANGED had

\* Faulty variant: Recycle sends without a default case, waiting for room
RecycleBlocking(g) ==
    /\ ppc[g] = "send"
    /\ Len(Buffers) < max
    /\ Buffers' = Append(Buffers, pop[g].buf)
    /\ older' = Behind(pop[g].buf)
    /\ ppc' = [ppc EXCEPT ![g] = "idle"]
    /\ pop' = [pop EXCEPT ![g] = NoPoolOp]
    /\ UNCHANGED <<max, content, i, owned>>
    /\ UNCHANGED <<mapVars, histVars, chunkVars>>
    /\ UNCHANGED had

\* Recycle: select { case pool.Buffers <- buf: default: }
Recycle(g) ==
    /\ ppc[g] = "send"
    /\ IF Len(Buffers) < max
       THEN /\ Buffers' = Append(Buffers, pop[g].buf)
            /\ older' = Behind(pop[g].buf)
       ELSE UNCHANGED <<Buffers, older>>
    /\ ppc' = [ppc EXCEPT ![g] = "idle"]
    /\ pop' = [pop EXCEPT ![g] = NoPoolOp]
    /\ UNCHANGED <<max, content, i, owned>>
    /\ UNCHANGED <<mapVars, histVars, chunkVars>>
    /\ UNCHANGED had

\* A step of a pool call in progress.
PoolStep(g) == Warmup(g) \/ New(g) \/ Reset(g) \/ Recycle(g)

PoolNext ==
    \E g \in P :
        \/ CallWarmup(g) \/ CallNew(g) \/ CallRecycle(g) \/ Write(g)
        \/ Warmup(g) \/ New(g) \/ Reset(g) \/ Recycle(g)

PoolSpec == PoolInit /\ [][PoolNext]_vars

\* ------------------------------------------------- one pool operation at a time
\* The callers of the serial specification make a call of the pool only when no
\* other call of the pool is running.
Quiet == \A h \in P : ppc[h] = "idle"

SerialWarmup(g) == Quiet /\ CallWarmup(g)

SerialNew(g) == Quiet /\ CallNew(g)

SerialRecycle(g) == Quiet /\ CallRecycle(g)

SerialWrite(g) == Quiet /\ Write(g)

SerialNext ==
    \E g \in P :
        \/ SerialWarmup(g) \/ SerialNew(g) \/ SerialRecycle(g) \/ SerialWrite(g)
        \/ Warmup(g) \/ New(g) \/ Reset(g) \/ Recycle(g)

SerialSpec == PoolInit /\ [][SerialNext]_vars

\* ------------------------------------------------- ChunkJoinStrings
\* A string is the sequence of its bytes. The strings given in params are runs of
\* one letter, "" included; the separator is a run of commas, "" included.
Letters == {"a", "b", "c"}
Comma == ","

Run(c, k) == [n \in 1..k |-> c]

Strings == {Run(c, k) : c \in Letters, k \in 0..MaxParam}
Seps == {Run(Comma, k) : k \in 0..MaxSep}
ParamLists == UNION {[1..k -> Strings] : k \in 0..MaxParams}

\* The state at the entry of the function, for each input: buffer is empty, currlen
\* is 0, joined is []string{} and the loop starts at the first element, if any.
ChunkInit ==
    /\ MapInit
    /\ HistInit
    /\ PoolIdle
    /\ params \in ParamLists
    /\ maxlength \in 0..MaxLength
    /\ sep \in Seps
    /\ buffer = <<>>
    /\ currlen = 0
    /\ joined = <<>>
    /\ idx = 0
    /\ cpc = IF Len(params) > 0 THEN "for" ELSE "return"

\* One iteration of for i, param := range params. The local iterate is false at
\* the start of every iteration.
ChunkRange ==
    /\ cpc = "for"
    /\ LET param == params[idx + 1]
           fits == currlen + Len(param) < maxlength
           buffer1 == IF fits THEN buffer \o param ELSE buffer
           currlen1 == IF fits THEN currlen + Len(param) ELSE currlen
           more == idx + 1 < Len(params) /\ currlen1 + Len(sep) < maxlength
           buffer2 == IF more THEN buffer1 \o sep ELSE buffer1
           currlen2 == IF more THEN currlen1 + 1 ELSE currlen1
           iterate == ~fits \/ ~more
       IN  IF iterate
           THEN /\ currlen' = 0
                /\ joined' = Append(joined, buffer2)
                /\ buffer' = <<>>
           ELSE /\ currlen' = currlen2
                /\ buffer' = buffer2
                /\ UNCHANGED joined
    /\ idx' = idx + 1
    /\ cpc' = IF idx + 1 < Len(params) THEN "for" ELSE "return"
    /\ UNCHANGED <<params, maxlength, sep>>
    /\ UNCHANGED <<mapVars, histVars, poolVars>>

\* After the loop: if buffer.Len() > 0 { joined = append(joined, buffer.String()) }
\* and return joined.
ChunkReturn ==
    /\ cpc = "return"
    /\ joined' = IF Len(buffer) > 0 THEN Append(joined, buffer) ELSE joined
    /\ cpc' = "done"
    /\ UNCHANGED <<params, maxlength, sep, buffer, currlen, idx>>
    /\ UNCHANGED <<mapVars, histVars, poolVars>>

ChunkNext == ChunkRange \/ ChunkReturn

ChunkSpec == ChunkInit /\ [][ChunkNext]_vars

\* ------------------------------------------------------------ properties
\* The goroutine holds the lock: it is between its (R)Lock and its (R)Unlock.
InCritical(g) ==
    pc[g] \in {"exists", "Add", "Del", "Set", "Get", "Exists", "len", "range",
               "Unlock", "RUnlock"}
IsWriter(g) == op[g].name \in WriteOps
IsReader(g) == op[g].name \in ReadOps
\* The call has computed what it returns and only its deferred unlock is left.
Returning(g) == pc[g] \in {"Unlock", "RUnlock"}

\* C1: a goroutine inside the critical section of Add, Set or Del is the only
\* goroutine inside any critical section of the map; two goroutines are inside
\* critical sections together only when both are in Get, Exists, Length or ForEach.
C1_WriterExclusive ==
    \A g \in G, h \in G :
        (g # h /\ InCritical(g) /\ InCritical(h)) => (IsReader(g) /\ IsReader(h))

\* C1 witness: a writer is inside its critical section while a reader is blocked
\* in RLock and another writer waits for the writers' mutex.
C1_Witness ==
    \E g \in G, h \in G, j \in G :
        /\ IsWriter(g) /\ pc[g] = op[g].name
        /\ pc[h] = "RLockWait"
        /\ pc[j] = "Lock"

\* C2: linearizability, the linearization point being the acquisition of the lock:
\* every call returns what the plain sequential map returned when the calls are run
\* atomically in lock acquisition order, and whenever no writer is between its
\* existence check and its write the map equals the sequential map.
C2_Linearizable ==
    /\ \A g \in G : (Returning(g) /\ op[g].name # "ForEach") => ret[g] = seqRet[g]
    /\ (\A g \in G : ~(IsWriter(g) /\ pc[g] \in {"exists", "Add", "Del", "Set"}))
          => data = seqData

\* C2 witness: a Set has succeeded on a key while a Del of the same key by another
\* goroutine waits for the lock.
C2_Witness ==
    \E g \in G, h \in G :
        /\ op[g].name = "Set" /\ pc[g] = "Unlock" /\ ~ret[g].err
        /\ op[h].name = "Del" /\ pc[h] = "Lock" /\ op[h].key = op[g].key

\* C3 (under AddSpec: NumG goroutines, one Add each, pairwise distinct keys, empty
\* map): every Add returns nil, and once all have returned the map has NumG entries
\* and every key maps to the value its goroutine added.
C3_NoLostAdd ==
    /\ \A g \in G : pc[g] \in {"Unlock", "done"} => ~ret[g].err
    /\ (\A g \in G : pc[g] = "done") =>
          /\ LenData(data) = NumG
          /\ \A g \in G : Has(data, op[g].key) /\ data[op[g].key] = op[g].val

\* C3 witness: all the goroutines have returned from their Add.
C3_Witness == \A g \in G : pc[g] = "done" /\ op[g].name = "Add"

\* C4: no deadlock: whenever a call has been invoked and has not returned, some
\* goroutine that is in a call can take a step.
C4_NoDeadlock ==
    (\E g \in G : pc[g] # "idle") => (\E g \in G : pc[g] # "idle" /\ ENABLED Step(g))

\* C4 witness: every goroutine is in a call, a writer waits for an active reader to
\* depart and a third goroutine is blocked behind the writer.
C4_Witness ==
    \E g \in G, h \in G, j \in G :
        /\ pc[g] = "LockWait"
        /\ IsReader(h) /\ InCritical(h)
        /\ pc[j] \in {"RLockWait", "Lock"}

\* C5 (under FairSpec): every invoked call returns, whatever calls the other
\* goroutines keep making. A call returns only through its deferred Unlock or
\* RUnlock, so a writer waiting in Lock and a reader waiting in RLock get the lock.
C5_EveryCallReturns == \A g \in G : (pc[g] # "idle") ~> (pc[g] = "idle")

\* C5 witness: a writer waits for the writers' mutex, which a second writer holds
\* while it waits for an active reader to depart.
C5_Witness ==
    \E g \in G, h \in G, j \in G :
        /\ pc[g] = "Lock"
        /\ pc[h] = "LockWait"
        /\ IsReader(j) /\ InCritical(j)

\* The sequence holds no key twice.
DistinctKeys(q) == \A n \in 1..Len(q), t \in 1..Len(q) : n # t => q[n][1] # q[t][1]

\* C6: while ForEach holds the lock the map is the map it found when it acquired the
\* lock; every do(key, val) it makes is of an entry of that map, no key is visited
\* twice, and when the loop ends every key of that map has been visited.
C6_ForEachSnapshot ==
    \A g \in G : (op[g].name = "ForEach" /\ InCritical(g)) =>
        /\ data = snap[g]
        /\ DistinctKeys(visits[g])
        /\ \A n \in 1..Len(visits[g]) :
              /\ Has(snap[g], visits[g][n][1])
              /\ visits[g][n][2] = snap[g][visits[g][n][1]]
        /\ pc[g] = "RUnlock" => Produced(g) = DOMAIN snap[g]

\* C6 witness: a ForEach has visited two entries and is about to return while a
\* writer waits for it.
C6_Witness ==
    \E g \in G, h \in G :
        /\ op[g].name = "ForEach" /\ pc[g] = "RUnlock" /\ Len(visits[g]) = 2
        /\ pc[h] = "LockWait"

\* C7: Add returns an error iff the key is present when it is called; Set, Get and
\* Del return an error iff the key is absent; Exists and Length return no error.
C7_ErrorIff ==
    \A g \in G : Returning(g) =>
        CASE op[g].name = "Add" -> ret[g].err <=> Has(snap[g], op[g].key)
          [] op[g].name \in {"Set", "Get", "Del"} -> ret[g].err <=> ~Has(snap[g], op[g].key)
          [] OTHER -> ~ret[g].err

\* C7 witness: a Del of an absent key is returning its error.
C7_Witness ==
    \E g \in G : op[g].name = "Del" /\ pc[g] = "Unlock" /\ ret[g].err
                 /\ ~Has(snap[g], op[g].key)

\* C8: a call that returns an error leaves the map as it found it, and Get, Exists,
\* Length and ForEach leave the map as they found it whatever they return.
C8_FailureFrame ==
    \A g \in G :
        /\ (Returning(g) /\ ret[g].err) => data = snap[g]
        /\ (IsReader(g) /\ InCritical(g)) => data = snap[g]

\* C8 witness: an Add of a present key, with another value, is returning its error.
C8_Witness ==
    \E g \in G : /\ op[g].name = "Add" /\ pc[g] = "Unlock" /\ ret[g].err
                 /\ Has(data, op[g].key) /\ data[op[g].key] # op[g].val

\* The keys for which Exists returns true on the map m.
ExistingKeys(m) == {k \in KeySpace : SeqRet([name |-> "Exists", key |-> k, val |-> EmptyString], m).bool}

\* C9: Get returns the value of the latest successful Add or Set of its key that no
\* successful Del followed, and an error when there is none; a successful Add, Set or
\* Del changes the entry of its own key only; Length returns the number of keys for
\* which Exists is true.
C9_LatestWrite ==
    \A g \in G : Returning(g) =>
        /\ op[g].name = "Get" =>
              ret[g] = IF lastVal[op[g].key] = NoValue
                       THEN Result(TRUE, EmptyString, FALSE, 0)
                       ELSE Result(FALSE, lastVal[op[g].key], FALSE, 0)
        /\ (IsWriter(g) /\ ~ret[g].err) =>
              \A k \in KeySpace \ {op[g].key} :
                  /\ Has(data, k) <=> Has(snap[g], k)
                  /\ Has(data, k) => data[k] = snap[g][k]
        /\ op[g].name = "Length" => ret[g].int = Cardinality(ExistingKeys(data))

\* C9 witness: a Get is returning the value last written to its key while every
\* key is in the map.
C9_Witness ==
    \E g \in G :
        /\ op[g].name = "Get" /\ pc[g] = "RUnlock" /\ ~ret[g].err
        /\ ret[g].str = NumVals
        /\ LenData(data) = NumKeys

\* C10: the pool never holds more buffers than its capacity (nor fewer than none),
\* and the send of a Recycle that finds the pool full leaves the channel as it is:
\* the recycled buffer is in no slot afterwards and nothing refers to it.
C10_Bounded ==
    /\ [](Len(Buffers) >= 0 /\ Len(Buffers) <= max)
    /\ [][\A g \in P :
            (ppc[g] = "send" /\ ppc'[g] = "idle" /\ Len(Buffers) = max)
                => (Buffers' = Buffers /\ pop[g].buf \notin Live')]_vars

\* C10 witness: a pool of capacity 1 or more is full and a Recycle is at its send.
C10_Witness ==
    \E g \in P : ppc[g] = "send" /\ max >= 1 /\ Len(Buffers) = max

\* C11: a pool call in progress can always take its next step, whatever the other
\* goroutines do and whether the pool is empty, partly filled or full; New returns
\* in one step, Recycle in two, and Warmup makes at most num iterations.
C11_NeverWaits ==
    \A g \in P : ppc[g] # "idle" =>
        /\ ENABLED PoolStep(g)
        /\ ppc[g] \in {"for", "select", "Reset", "send"}
        /\ i[g] <= pop[g].num
        /\ ppc[g] # "for" => i[g] = 0

\* C11 witness: the pool is full while a Recycle is at its send and a Warmup has
\* iterations left.
C11_Witness ==
    \E g \in P, h \in P :
        /\ max >= 1 /\ Len(Buffers) = max
        /\ ppc[g] = "send"
        /\ ppc[h] = "for" /\ i[h] < pop[h].num

\* C12: callers recycle only buffers they hold and give them up as they do; then no
\* buffer is held by two goroutines, no buffer is both in the pool and held by a
\* goroutine (or by a Recycle in progress), and no buffer is in two slots of the
\* pool, so a stored buffer is handed out by one New call only.
C12_SingleOwner ==
    /\ \A g \in P, h \in P : g # h => owned[g] \cap owned[h] = {}
    /\ \A g \in P : owned[g] \cap Stored = {}
    /\ \A n \in 1..Len(Buffers), t \in 1..Len(Buffers) : n # t => Buffers[n] # Buffers[t]
    /\ \A g \in P : pop[g].name = "Recycle" =>
          /\ pop[g].buf \notin Stored
          /\ \A h \in P : pop[g].buf \notin owned[h]
          /\ \A h \in P \ {g} : pop[h].name = "Recycle" => pop[h].buf # pop[g].buf

\* C12 witness: a goroutine holds a buffer while the pool stores another and a New
\* of another goroutine is at its select.
C12_Witness ==
    \E g \in P, h \in P :
        /\ g # h
        /\ owned[g] # {}
        /\ Len(Buffers) >= 1
        /\ ppc[h] = "select"

\* C13: callers write only to buffers they hold; then every buffer stored in the
\* pool is empty in every reachable state, and the buffer a New returns, taken from
\* the pool or allocated, is empty.
C13_StoredEmpty ==
    /\ [](\A n \in 1..Len(Buffers) : content[Buffers[n]] = 0)
    /\ [][\A g \in P :
            (ppc[g] = "select" /\ ppc'[g] = "idle")
                => \A b \in owned'[g] \ owned[g] : content'[b] = 0]_vars

\* C13 witness: a buffer that holds bytes is being recycled into a pool with room.
C13_Witness ==
    \E g \in P :
        /\ ppc[g] = "Reset"
        /\ content[pop[g].buf] > 0
        /\ Len(Buffers) < max

\* C14: a New that finds a buffer in the pool returns a buffer of the pool, the pool
\* holds one buffer fewer and nothing is allocated; a New that finds the pool empty
\* returns a newly allocated buffer, which no one referred to, and the pool stays
\* empty.
C14_NewTakesOrAllocates ==
    [][\A g \in P :
        (ppc[g] = "select" /\ ppc'[g] = "idle") =>
            IF Len(Buffers) > 0
            THEN \E b \in Stored :
                    /\ b \notin owned[g]
                    /\ owned'[g] = owned[g] \cup {b}
                    /\ Len(Buffers') = Len(Buffers) - 1
                    /\ b \notin Stored'
                    /\ Live' = Live
            ELSE \E b \in Bufs \ Live :
                    /\ owned'[g] = owned[g] \cup {b}
                    /\ Buffers' = <<>>
                    /\ Live' = Live \cup {b}]_vars

\* C14 witness: two News are at their select and the pool holds one buffer: one of
\* them takes it and the other finds the pool empty.
C14_Witness ==
    \E g \in P, h \in P :
        /\ g # h
        /\ ppc[g] = "select" /\ ppc[h] = "select"
        /\ Len(Buffers) = 1

\* C20: the pool is first in, first out: of two buffers that are in the pool one
\* was stored before the other, and a New never hands out a buffer while a buffer
\* stored before it is in the pool.
C20_FirstInFirstOut ==
    /\ [](\A a \in Stored, b \in Stored :
            a # b => (<<a, b>> \in older) # (<<b, a>> \in older))
    /\ [][\A g \in P :
            (ppc[g] = "select" /\ ppc'[g] = "idle" /\ Len(Buffers) > 0)
                => \A b \in owned'[g] \ owned[g], a \in Stored : <<a, b>> \notin older]_vars

\* C20 witness: a New is at its select while the pool holds two buffers, one of
\* them recycled after the other was stored.
C20_Witness ==
    \E g \in P : ppc[g] = "select" /\ Len(Buffers) >= 2 /\ older # {}

Min(a, b) == IF a <= b THEN a ELSE b

\* The buffers a running Warmup has added: those behind the had[g] buffers the
\* pool held when it was called.
Added(g) == {Buffers[n] : n \in (had[g] + 1)..Len(Buffers)}

C16_OneBelowCapacity ==
    /\ [](\A g \in P : (ppc[g] = "for" /\ had[g] = 0 /\ max >= 1) => Len(Buffers) < max)
    /\ [][\A g \in P :
            (ppc[g] = "for" /\ ppc'[g] = "idle" /\ had[g] = 0 /\ i[g] = Len(Buffers) /\ max >= 1)
                => Len(Buffers') = Min(pop[g].num, max - 1)]_vars

\* C16 case: a Warmup called on an empty pool of capacity max >= 1 has made the
\* pool full.
C16_Witness ==
    \E g \in P :
        /\ ppc[g] = "for"
        /\ had[g] = 0
        /\ max >= 1
        /\ i[g] = max
        /\ Len(Buffers) = max

\* ------------------------------------------------- claims about ChunkJoinStrings
\* ChunkJoinStrings has returned joined.
ChunkDone == cpc = "done"

Longest == IF params = <<>> THEN 0
           ELSE CHOOSE k \in 0..MaxParam :
                    /\ \E n \in 1..Len(params) : Len(params[n]) = k
                    /\ \A n \in 1..Len(params) : Len(params[n]) <= k

\* params is not empty and maxlength is greater than the length of the longest
\* string of params plus the length of the separator.
Roomy == Len(params) > 0 /\ maxlength > Longest + Len(sep)

\* Where t first occurs in s, 0 if it does not.
Index(s, t) ==
    LET At == {n \in 1..(Len(s) - Len(t) + 1) : SubSeq(s, n, n + Len(t) - 1) = t}
    IN  IF At = {} THEN 0 ELSE CHOOSE n \in At : \A k \in At : n <= k

\* The strings between the occurrences of the non-empty separator t in s.
RECURSIVE Split(_, _)
Split(s, t) ==
    IF Index(s, t) = 0 THEN <<s>>
    ELSE <<SubSeq(s, 1, Index(s, t) - 1)>> \o Split(SubSeq(s, Index(s, t) + Len(t), Len(s)), t)

\* The strings of all chunks, in order.
RECURSIVE Pieces(_, _)
Pieces(chunks, t) ==
    IF chunks = <<>> THEN <<>> ELSE Split(Head(chunks), t) \o Pieces(Tail(chunks), t)

RECURSIVE Concat(_)
Concat(chunks) == IF chunks = <<>> THEN <<>> ELSE Head(chunks) \o Concat(Tail(chunks))

\* C17: for a non-empty params and maxlength greater than the longest string plus
\* the separator, splitting the returned chunks at the separator gives back params
\* in order (with the separator "", the chunks concatenate to the strings of params
\* concatenated): nothing is dropped, duplicated or reordered; and
\* ChunkJoinStrings(["a","bb","ccc"], 4, ",") returns ["a,bb", "ccc"].
C17_Reproduces ==
    ChunkDone =>
        /\ Roomy => IF sep = <<>> THEN Concat(joined) = Concat(params)
                                  ELSE Pieces(joined, sep) = params
        /\ (params = <<Run("a", 1), Run("b", 2), Run("c", 3)>> /\ maxlength = 4 /\ sep = <<Comma>>)
                => joined = << <<"a", Comma, "b", "b">>, Run("c", 3) >>

\* C17 case: ChunkJoinStrings(["a","bb","cc"], 4, ",") has returned ["a,,", "cc"].
C17_Witness ==
    /\ ChunkDone
    /\ params = <<Run("a", 1), Run("b", 2), Run("c", 2)>> /\ maxlength = 4 /\ sep = <<Comma>>
    /\ Roomy
    /\ joined = << <<"a", Comma, Comma>>, Run("c", 2) >>

\* C18: for a non-empty params, any separator and maxlength greater than the
\* longest string plus the separator, every returned chunk is shorter than
\* maxlength.
C18_ChunksShorter ==
    (ChunkDone /\ Roomy) => \A n \in 1..Len(joined) : Len(joined[n]) < maxlength

\* C18 case: ChunkJoinStrings(["a","a"], 4, ",,") has returned ["a,,a"].
C18_Witness ==
    /\ ChunkDone
    /\ params = <<Run("a", 1), Run("a", 1)>> /\ maxlength = 4 /\ sep = Run(Comma, 2)
    /\ Roomy
    /\ joined = << <<"a", Comma, Comma, "a">> >>

\* C19: for maxlength >= 1, a string of params that is maxlength long or longer is
\* returned as a chunk of its own, the string alone.
C19_OversizedAlone ==
    (ChunkDone /\ maxlength >= 1) =>
        \A n \in 1..Len(params) :
            Len(params[n]) >= maxlength => \E k \in 1..Len(joined) : joined[k] = params[n]

\* C19 case: ChunkJoinStrings(["aaa"], 2, ",") has returned [""].
C19_Witness ==
    /\ ChunkDone
    /\ params = <<Run("a", 3)>> /\ maxlength = 2 /\ sep = <<Comma>>
    /\ joined = << <<>> >>

====
